---- MODULE Spec2Model ----
(***************************************************************************)
(* Shipment state and notification pipeline of the courier tracking app:   *)
(* create -> checkpoint -> notify -> simulate (src/app.py), with the       *)
(* subscriber removal command of the polling bot (src/telegram_bot.py).    *)
(*                                                                         *)
(* Units.  Coordinates are integers in hundredths of a degree, so the      *)
(* simulator's jitter bound of 0.01 degrees is one unit.  Times are        *)
(* integers in hours; datetime.utcnow() is the variable now.               *)
(*                                                                         *)
(* Persistence.  Every `with db.session.begin():` block is one atomic      *)
(* commit.  Rows are kept in sequences in insertion order; a row's index   *)
(* is its autoincrement primary key.  Python's None is the integer Null    *)
(* in numeric columns and the string "None" in text columns.               *)
(***************************************************************************)
EXTENDS Integers, Sequences, FiniteSets, TLC

VARIABLES
    now,          \* datetime.utcnow(), in hours
    shipments,    \* table shipment
    history,      \* table status_history
    checkpoints,  \* table checkpoint
    subscribers,  \* table subscriber
    simstates,    \* table simulation_state
    requests,     \* HTTP handlers in flight: locals of each worker
    tasks,        \* Celery run_simulation_async tasks: queue and locals
    outbox,       \* notification tasks handed to Celery (.delay)
    resp,         \* what the last step returned to its caller
    admin_sessions  \* Telegram admin sessions, by chat id

vars == <<now, shipments, history, checkpoints, subscribers, simstates,
          requests, tasks, outbox, resp, admin_sessions>>

(***************************************************************************)
(* Bounds of the model.                                                    *)
(***************************************************************************)
MaxShipments == 2
MaxCheckpoints == 3
MaxSubscribers == 3
MaxRequests == 2
MaxTasks == 2
MaxNow == 1
MaxHistory == 3

(***************************************************************************)
(* Program constants.                                                      *)
(***************************************************************************)
MinNumPoints == 2
MaxNumPoints == 10
MinStepHours == 1
MaxStepHours == 24
MaxLat == 9000
MaxLng == 18000
SpeedKmh == 50
KmPerDegree == 111
Jitter == 1
NumStatuses == 3
SessionHours == 1

Null == 0 - 999999

\* class ShipmentStatus(Enum)
CREATED == "Created"
IN_TRANSIT == "In Transit"
OUT_FOR_DELIVERY == "Out for Delivery"
DELIVERED == "Delivered"
ShipmentStatus == {CREATED, IN_TRANSIT, OUT_FOR_DELIVERY, DELIVERED}

(***************************************************************************)
(* Arithmetic helpers.                                                     *)
(***************************************************************************)
Max(S) == CHOOSE x \in S : \A y \in S : y <= x

Min2(a, b) == IF a <= b THEN a ELSE b

Abs(x) == IF x < 0 THEN 0 - x ELSE x

(***************************************************************************)
(* Input cleaning: bleach.clean(v.strip()).  The inputs of the model are   *)
(* drawn from a small alphabet on which stripping is tabulated.            *)
(***************************************************************************)
Clean(v) ==
    CASE v = " T1 " -> "T1"
      [] v = "  " -> ""
      [] OTHER -> v

\* str.lower() on the e-mail alphabet of the model
Lower(v) ==
    CASE v = "A@x.io" -> "a@x.io"
      [] OTHER -> v

(***************************************************************************)
(* Distance and ETA.  haversine is replaced by a planar estimate on the    *)
(* integer grid (its trigonometry is not expressible); calculate_eta is    *)
(* timedelta(hours = distance / speed), truncated to whole hours.          *)
(***************************************************************************)
haversine(lat1, lon1, lat2, lon2) ==
    ((Abs(lat2 - lat1) + Abs(lon2 - lon1)) * KmPerDegree) \div 100

calculate_eta(distance_km) == distance_km \div SpeedKmh

(***************************************************************************)
(* Pydantic models.  A location input is a record [lat, lng, address]      *)
(* with Null / "" for what the request leaves out.                         *)
(***************************************************************************)
\* class Coordinate: check_lat and check_lng
CoordinateValid(lat, lng) ==
    /\ lat # Null /\ lng # Null
    /\ 0 - MaxLat <= lat /\ lat <= MaxLat
    /\ 0 - MaxLng <= lng /\ lng <= MaxLng

\* ShipmentCreate.check_coordinates_or_address on one of origin, destination:
\* a dict must hold lat and lng and pass Coordinate, a string must be non-blank
EndpointValid(loc) ==
    IF loc.address = "None"
    THEN CoordinateValid(loc.lat, loc.lng)
    ELSE Clean(loc.address) # ""

\* ShipmentCreate(**data): every validator
ShipmentCreateValid(tracking, title, origin, destination, status) ==
    /\ Clean(tracking) # ""
    /\ Clean(title) # ""
    /\ EndpointValid(origin)
    /\ EndpointValid(destination)
    /\ status \in ShipmentStatus

\* a CheckpointCreate whose validator lets an address pass together with
\* coordinates
CheckpointCreateValidLax(loc, label) ==
    /\ Clean(label) # ""
    /\ ~(loc.address \in {"None", ""} /\ (loc.lat = Null \/ loc.lng = Null))

\* CheckpointCreate(**data): check_label and check_coordinates_or_address
CheckpointCreateValid(loc, label) ==
    /\ Clean(label) # ""
    /\ ~(loc.address \in {"None", ""} /\ (loc.lat = Null \/ loc.lng = Null))
    /\ ~(loc.address \notin {"None", ""} /\ (loc.lat # Null \/ loc.lng # Null))

(***************************************************************************)
(* geocode_address: the external geocoder answers with coordinates or      *)
(* fails (ValueError).  The outcome is an input g of the calling action:   *)
(* a record [ok, lat, lng].                                                *)
(***************************************************************************)
GeocodeOutcomes ==
    {[ok |-> FALSE, lat |-> Null, lng |-> Null],
     [ok |-> TRUE, lat |-> 650, lng |-> 340]}

\* coordinates a handler ends up with for a location input: the given pair,
\* or the geocoder's answer for an address
Resolve(loc, g) ==
    IF loc.address \in {"None", ""}
    THEN [ok |-> TRUE, lat |-> loc.lat, lng |-> loc.lng]
    ELSE g

(***************************************************************************)
(* Queries.                                                                *)
(***************************************************************************)
\* Shipment.query.filter_by(tracking=tracking).first(): a shipment id, or 0
ShipmentByTracking(tracking) ==
    IF \E i \in DOMAIN shipments :
           ~shipments[i].deleted /\ shipments[i].tracking = tracking
    THEN CHOOSE i \in DOMAIN shipments :
           /\ ~shipments[i].deleted /\ shipments[i].tracking = tracking
           /\ \A j \in DOMAIN shipments :
                (~shipments[j].deleted /\ shipments[j].tracking = tracking)
                    => i <= j
    ELSE 0

\* a shipment table without the unique index: no INSERT is refused
TrackingTakenOpen(tracking) == FALSE

\* the unique=True index on shipment.tracking: an INSERT of a tracking number
\* that a stored row holds raises IntegrityError
TrackingTaken(tracking) == ShipmentByTracking(tracking) # 0

\* db.func.max(Checkpoint.position) for one shipment, `or 0`
MaxPosition(sid) ==
    LET ps == {checkpoints[i].position : i \in
                 {j \in DOMAIN checkpoints : checkpoints[j].shipment_id = sid}}
    IN IF ps = {} THEN 0 ELSE Max(ps)

NoResp == [op |-> "none", tracking |-> "None", code |-> 0]

Reply(op, tracking, code) == [op |-> op, tracking |-> tracking, code |-> code]

IdleRequest ==
    [pc |-> "idle", op |-> "none", shipment_id |-> 0, position |-> 0,
     lat |-> Null, lng |-> Null, label |-> "None", status |-> "None",
     seen_status |-> "None"]

IdleTask ==
    [pc |-> "idle", shipment_id |-> 0, num_points |-> 0, step_hours |-> 0,
     state |-> 0, waypoints |-> <<>>, i |-> 0, current_time |-> Null]

(***************************************************************************)
(* The state after the application and its empty database are set up.      *)
(***************************************************************************)
\* the Telegram chats that talk to the bot
Chats == {"chat1", "chat2"}

\* admin_sessions = {}: a chat without an entry is not authenticated
NoSession == [authenticated |-> FALSE, expires |-> 0]

Init ==
    /\ now = 0
    /\ shipments = <<>>
    /\ history = <<>>
    /\ checkpoints = <<>>
    /\ subscribers = <<>>
    /\ simstates = <<>>
    /\ requests = [r \in 1..MaxRequests |-> IdleRequest]
    /\ tasks = [t \in 1..MaxTasks |-> IdleTask]
    /\ outbox = {}
    /\ resp = NoResp
    /\ admin_sessions = [c \in Chats |-> NoSession]

\* the wall clock advances
Tick ==
    /\ now < MaxNow
    /\ now' = now + 1
    /\ resp' = NoResp
    /\ UNCHANGED <<admin_sessions, shipments, history, checkpoints, subscribers,
                   simstates, requests, tasks, outbox>>

(***************************************************************************)
(* CreateShipment.                                                         *)
(***************************************************************************)
\* Shipment(...) followed by calculate_distance_and_eta()
NewShipment(tracking, title, o, oaddr, d, daddr, status) ==
    LET dist == haversine(o.lat, o.lng, d.lat, d.lng)
    IN [tracking |-> tracking, title |-> title,
        origin_lat |-> o.lat, origin_lng |-> o.lng,
        dest_lat |-> d.lat, dest_lng |-> d.lng,
        origin_address |-> oaddr, dest_address |-> daddr,
        distance_km |-> dist, eta |-> now + calculate_eta(dist),
        status |-> status, created_at |-> now, deleted |-> FALSE]

\* with db.session.begin(): add(shipment); add(StatusHistory(...)), with the
\* IntegrityError, ValueError and ValidationError handlers around it
PersistShipment(op, valid, tracking, title, o, oaddr, d, daddr, status) ==
    IF ~valid \/ ~o.ok \/ ~d.ok
    THEN /\ resp' = Reply(op, tracking, 400)
         /\ UNCHANGED <<shipments, history>>
    ELSE IF TrackingTaken(tracking)
    THEN /\ resp' = Reply(op, tracking, 409)
         /\ UNCHANGED <<shipments, history>>
    ELSE /\ shipments' = Append(shipments,
                NewShipment(tracking, title, o, oaddr, d, daddr, status))
         /\ history' = Append(history,
                [shipment_id |-> Len(shipments) + 1, status |-> status,
                 timestamp |-> now])
         /\ resp' = Reply(op, tracking, IF op = "create_shipment" THEN 201 ELSE 302)

\* POST /shipments
create_shipment(tracking, title, origin, destination, status, go, gd) ==
    /\ Len(shipments) < MaxShipments
    /\ PersistShipment("create_shipment",
            ShipmentCreateValid(tracking, title, origin, destination, status),
            Clean(tracking), Clean(title),
            Resolve(origin, go),
            IF origin.address = "None" THEN "None" ELSE Clean(origin.address),
            Resolve(destination, gd),
            IF destination.address = "None" THEN "None" ELSE Clean(destination.address),
            status)
    /\ UNCHANGED <<now, admin_sessions, checkpoints, subscribers, simstates,
                   requests, tasks, outbox>>

\* the admin form's reading of an origin, destination or location field: a
\* "lat,lng" string of digits and dots is parsed, with no range check; any
\* other string is an address (a string with a sign or a letter in it too)
IsDigitPair(loc) ==
    /\ loc.address = "None"
    /\ loc.lat # Null /\ loc.lng # Null
    /\ loc.lat >= 0 /\ loc.lng >= 0

FormResolve(loc, g) ==
    IF IsDigitPair(loc) THEN [ok |-> TRUE, lat |-> loc.lat, lng |-> loc.lng] ELSE g

\* the checks of the admin shipment form before the INSERT: required fields,
\* a known status, and ShipmentCreate on the raw strings, whose endpoint
\* validator only asks for a non-blank string
ShipmentFormValid(tracking, title, origin, destination, status) ==
    /\ Clean(tracking) # "" /\ Clean(title) # ""
    /\ origin.address # "" /\ destination.address # ""
    /\ status \in ShipmentStatus

\* admin form, form_type = shipment
handle_shipment_form(tracking, title, origin, destination, status, go, gd) ==
    /\ Len(shipments) < MaxShipments
    /\ PersistShipment("handle_shipment_form",
            ShipmentFormValid(tracking, title, origin, destination, status),
            Clean(tracking), Clean(title),
            FormResolve(origin, go),
            IF IsDigitPair(origin) THEN "None" ELSE Clean(origin.address),
            FormResolve(destination, gd),
            IF IsDigitPair(destination) THEN "None" ELSE Clean(destination.address),
            status)
    /\ UNCHANGED <<now, admin_sessions, checkpoints, subscribers, simstates,
                   requests, tasks, outbox>>

(***************************************************************************)
(* AppendCheckpoint.  The handler reads the largest position, then         *)
(* inserts in a later transaction; other workers run in between.           *)
(***************************************************************************)
\* Checkpoint.timestamp has default=datetime.utcnow, a column default that
\* is filled in when the INSERT is flushed at commit.  The handlers build
\* Checkpoint(...) without a timestamp and read checkpoint.timestamp inside
\* the transaction, before the flush: the attribute is still None there.
UnflushedTimestamp == Null

\* the notification fan-out after a checkpoint: one e-mail task for every
\* active subscriber of the shipment, and an SMS task if it has a phone
Notifications(sid, cp) ==
    {[checkpoint |-> cp, subscriber |-> k, channel |-> "email"] :
        k \in {j \in DOMAIN subscribers :
                 subscribers[j].shipment_id = sid /\ subscribers[j].is_active}}
    \cup
    {[checkpoint |-> cp, subscriber |-> k, channel |-> "sms"] :
        k \in {j \in DOMAIN subscribers :
                 /\ subscribers[j].shipment_id = sid /\ subscribers[j].is_active
                 /\ subscribers[j].phone # "None"}}

\* the fan-out loop hands the tasks over one by one (.delay), subscribers in
\* id order, the e-mail before the SMS: n is handed over before f
Before(n, f) ==
    \/ n.subscriber < f.subscriber
    \/ n.subscriber = f.subscriber /\ n.channel = "email" /\ f.channel = "sms"

\* what the fan-out loop has handed over when it ends: everything, or what
\* came before a .delay that raised (the broker cannot be reached)
DispatchOutcomes(sid, cp) ==
    {Notifications(sid, cp)}
    \cup {{n \in Notifications(sid, cp) : Before(n, f)} : f \in Notifications(sid, cp)}

\* the first half of add_checkpoint / handle_checkpoint_form: the checks the
\* handler makes before it looks the shipment up (early), the lookup, the
\* CheckpointCreate validation and the geocoder, the max(position) query
CheckpointRead(r, op, tracking, early, valid, place, label, status) ==
    /\ requests[r].pc = "idle"
    /\ Len(checkpoints) + Cardinality({q \in DOMAIN requests : requests[q].pc = "insert"})
          < MaxCheckpoints
    /\ LET sid == ShipmentByTracking(tracking)
       IN IF ~early
          THEN /\ resp' = Reply(op, tracking, 400)
               /\ UNCHANGED requests
          ELSE IF sid = 0
          THEN /\ resp' = Reply(op, tracking, 404)
               /\ UNCHANGED requests
          ELSE IF ~valid \/ ~place.ok
          THEN /\ resp' = Reply(op, tracking, 400)
               /\ UNCHANGED requests
          ELSE /\ requests' = [requests EXCEPT ![r] =
                      [pc |-> "insert", op |-> op, shipment_id |-> sid,
                       position |-> MaxPosition(sid),
                       lat |-> place.lat, lng |-> place.lng,
                       label |-> label, status |-> status,
                       seen_status |-> shipments[sid].status]]
               /\ resp' = NoResp
    /\ UNCHANGED <<now, admin_sessions, shipments, history, checkpoints,
                   subscribers, simstates, tasks, outbox>>

\* POST /shipments/<tracking>/checkpoints, up to the position query
add_checkpoint_read(r, tracking, loc, label, status, g) ==
    CheckpointRead(r, "add_checkpoint", Clean(tracking), TRUE,
                   CheckpointCreateValid(loc, label), Resolve(loc, g),
                   Clean(label), status)

\* admin form, form_type = checkpoint, up to the position query: required
\* fields and a known status come before the lookup; the location field is
\* an address, or a "lat,lng" pair that CheckpointCreate refuses unless it
\* is made of digits and dots
handle_checkpoint_form_read(r, tracking, loc, label, status, g) ==
    CheckpointRead(r, "handle_checkpoint_form", Clean(tracking),
                   /\ Clean(tracking) # "" /\ Clean(label) # ""
                   /\ ~(loc.address \in {"None", ""} /\ loc.lat = Null)
                   /\ status \in ShipmentStatus \cup {"None"},
                   loc.address \notin {"None", ""} \/ IsDigitPair(loc),
                   FormResolve(loc, g), Clean(label), status)

\* the second half: Checkpoint(position = position + 1, ...), then one
\* transaction adding it, the status change and its StatusHistory row, then
\* the notification fan-out.  q holds the handler's locals, sent is what the
\* fan-out handed over: a .delay that raises leaves the commit in place and
\* ends the request in `except Exception` (500).
\* shipment.status = status is an assignment on the object the handler loaded
\* before validating and geocoding.  The session writes the column only if
\* the value differs from the one it loaded (seen_status); when it is equal
\* no UPDATE is sent, and a status another worker committed in between
\* stays, while the StatusHistory row is still added.
InsertCheckpoint(q, sent) ==
    LET sid == q.shipment_id
        cp == [shipment_id |-> sid, position |-> q.position + 1,
               lat |-> q.lat, lng |-> q.lng, label |-> q.label,
               status |-> q.status, timestamp |-> now]
    IN /\ checkpoints' = Append(checkpoints, cp)
       /\ IF q.status # "None"
          THEN /\ shipments' = [shipments EXCEPT ![sid] =
                     [@ EXCEPT !.status = IF q.status = q.seen_status
                                          THEN @ ELSE q.status,
                               !.eta = IF q.status = DELIVERED
                                       THEN UnflushedTimestamp ELSE @]]
               /\ history' = Append(history,
                     [shipment_id |-> sid, status |-> q.status, timestamp |-> now])
          ELSE UNCHANGED <<shipments, history>>
       /\ outbox' = outbox \cup sent
       /\ resp' = Reply(q.op, shipments[sid].tracking,
                        IF sent # Notifications(sid, Len(checkpoints) + 1) THEN 500
                        ELSE IF q.op = "add_checkpoint" THEN 201 ELSE 302)

CheckpointCommit(r, sent) ==
    /\ requests[r].pc = "insert"
    /\ InsertCheckpoint(requests[r], sent)
    /\ requests' = [requests EXCEPT ![r] = IdleRequest]
    /\ UNCHANGED <<now, admin_sessions, subscribers, simstates, tasks>>

\* add_checkpoint run from its first line to its last with no other worker
\* in between
add_checkpoint(tracking, loc, label, status, g, sent) ==
    /\ Len(checkpoints) < MaxCheckpoints
    /\ LET tr == Clean(tracking)
           sid == ShipmentByTracking(tr)
           place == Resolve(loc, g)
       IN IF sid = 0
          THEN /\ resp' = Reply("add_checkpoint", tr, 404)
               /\ UNCHANGED <<shipments, history, checkpoints, outbox>>
          ELSE IF ~CheckpointCreateValid(loc, label) \/ ~place.ok
          THEN /\ resp' = Reply("add_checkpoint", tr, 400)
               /\ UNCHANGED <<shipments, history, checkpoints, outbox>>
          ELSE InsertCheckpoint(
                   [pc |-> "insert", op |-> "add_checkpoint", shipment_id |-> sid,
                    position |-> MaxPosition(sid),
                    lat |-> place.lat, lng |-> place.lng,
                    label |-> Clean(label), status |-> status,
                    seen_status |-> shipments[sid].status], sent)
    /\ UNCHANGED <<now, admin_sessions, subscribers, simstates, requests,
                   tasks>>

(***************************************************************************)
(* Simulator.                                                              *)
(***************************************************************************)
\* random.uniform(-0.01, 0.01), one draw per waypoint: the draws of one call
\* are fixed by its seed, each within the jitter bound
Deviation(i, seed) == (((i + seed) % (2 * Jitter + 1)) - Jitter)

\* generate_waypoints: num_points + 1 points, t = i / num_points, the same
\* deviation added to lat and lng
\* a generate_waypoints that loops over range(num_points)
generate_waypoints_short(start_lat, start_lng, end_lat, end_lng, num_points, seed) ==
    [k \in 1..num_points |->
        LET i == k - 1
        IN [lat |-> start_lat + ((i * (end_lat - start_lat)) \div num_points)
                      + Deviation(i, seed),
            lng |-> start_lng + ((i * (end_lng - start_lng)) \div num_points)
                      + Deviation(i, seed)]]

generate_waypoints(start_lat, start_lng, end_lat, end_lng, num_points, seed) ==
    [k \in 1..(num_points + 1) |->
        LET i == k - 1
        IN [lat |-> start_lat + ((i * (end_lat - start_lat)) \div num_points)
                      + Deviation(i, seed),
            lng |-> start_lng + ((i * (end_lng - start_lng)) \div num_points)
                      + Deviation(i, seed)]]

\* SimulationState.query.filter_by(shipment_id=...).first(): a row id, or 0
StateOf(sid) ==
    LET ids == {j \in DOMAIN simstates : simstates[j].shipment_id = sid}
    IN IF ids = {} THEN 0 ELSE CHOOSE j \in ids : \A k \in ids : j <= k

\* run_simulation_async.delay(...): the task waits in the Celery queue
Enqueue(t, sid, num_points, step_hours) ==
    [tasks EXCEPT ![t] = [IdleTask EXCEPT !.pc = "queued", !.shipment_id = sid,
                                          !.num_points = num_points,
                                          !.step_hours = step_hours]]

FreeTask(t) == tasks[t].pc = "idle"

\* a StartSimulation that never finds a simulation running
AlreadyRunningNone(sid) == FALSE

\* the single-flight check of StartSimulation: a stored state that is running
AlreadyRunning(sid) ==
    StateOf(sid) # 0 /\ simstates[StateOf(sid)].status = "running"

\* admin form, form_type = simulation (StartSimulation).  num_points and
\* step_hours arrive as integers, or Null for a missing field.
handle_simulation_form(t, tracking, num_points, step_hours) ==
    /\ FreeTask(t)
    /\ LET tr == Clean(tracking)
           sid == ShipmentByTracking(tr)
       IN IF tr = "" \/ num_points = Null \/ step_hours = Null
          THEN /\ resp' = Reply("handle_simulation_form", tr, 400)
               /\ UNCHANGED tasks
          ELSE IF \/ num_points < MinNumPoints \/ num_points > MaxNumPoints
                  \/ step_hours < MinStepHours \/ step_hours > MaxStepHours
          THEN /\ resp' = Reply("handle_simulation_form", tr, 400)
               /\ UNCHANGED tasks
          ELSE IF sid = 0
          THEN /\ resp' = Reply("handle_simulation_form", tr, 404)
               /\ UNCHANGED tasks
          ELSE IF shipments[sid].status = DELIVERED \/ AlreadyRunning(sid)
          THEN /\ resp' = Reply("handle_simulation_form", tr, 400)
               /\ UNCHANGED tasks
          ELSE /\ tasks' = Enqueue(t, sid, num_points, step_hours)
               /\ resp' = Reply("handle_simulation_form", tr, 302)
    /\ UNCHANGED <<now, admin_sessions, shipments, history, checkpoints,
                   subscribers, simstates, requests, outbox>>

\* POST /pause_simulation/<tracking>
pause_simulation(tracking) ==
    /\ LET tr == Clean(tracking)
           sid == ShipmentByTracking(tr)
       IN IF sid = 0
          THEN /\ resp' = Reply("pause_simulation", tr, 404)
               /\ UNCHANGED simstates
          ELSE IF StateOf(sid) = 0 \/ simstates[StateOf(sid)].status # "running"
          THEN /\ resp' = Reply("pause_simulation", tr, 400)
               /\ UNCHANGED simstates
          ELSE /\ simstates' = [simstates EXCEPT ![StateOf(sid)].status = "paused"]
               /\ resp' = Reply("pause_simulation", tr, 302)
    /\ UNCHANGED <<now, admin_sessions, shipments, history, checkpoints,
                   subscribers, requests, tasks, outbox>>

\* POST /continue_simulation/<tracking>
continue_simulation(t, tracking) ==
    /\ FreeTask(t)
    /\ LET tr == Clean(tracking)
           sid == ShipmentByTracking(tr)
       IN IF sid = 0
          THEN /\ resp' = Reply("continue_simulation", tr, 404)
               /\ UNCHANGED <<simstates, tasks>>
          ELSE IF StateOf(sid) = 0 \/ simstates[StateOf(sid)].status # "paused"
          THEN /\ resp' = Reply("continue_simulation", tr, 400)
               /\ UNCHANGED <<simstates, tasks>>
          ELSE /\ simstates' = [simstates EXCEPT ![StateOf(sid)].status = "running"]
               /\ tasks' = Enqueue(t, sid, simstates[StateOf(sid)].num_points,
                                   simstates[StateOf(sid)].step_hours)
               /\ resp' = Reply("continue_simulation", tr, 302)
    /\ UNCHANGED <<now, admin_sessions, shipments, history, checkpoints,
                   subscribers, requests, outbox>>

\* statuses[min(i // (num_points // len(statuses)), len(statuses) - 1)]
\* if i == num_points else None
Statuses == <<IN_TRANSIT, OUT_FOR_DELIVERY, DELIVERED>>

\* the integer division by num_points // len(statuses) raises
\* ZeroDivisionError when that quotient is 0
StepRaises(i, num_points) ==
    i = num_points /\ num_points \div NumStatuses = 0

StepStatus(i, num_points) ==
    IF i = num_points
    THEN Statuses[Min2(i \div (num_points \div NumStatuses), NumStatuses - 1) + 1]
    ELSE "None"

\* a Celery worker takes the task: Shipment.query.get, the SimulationState
\* query, start_position, waypoints and current_time
run_simulation_load(t, seed) ==
    /\ tasks[t].pc = "queued"
    /\ LET sid == tasks[t].shipment_id
           st == StateOf(sid)
           sh == shipments[sid]
       IN tasks' = [tasks EXCEPT ![t] =
            IF sh.deleted THEN [@ EXCEPT !.pc = "done"]
            ELSE IF st # 0
            THEN [@ EXCEPT !.pc = "loop", !.state = st,
                           !.waypoints = simstates[st].waypoints,
                           !.i = simstates[st].current_position + 1,
                           !.current_time = simstates[st].current_time]
            ELSE [@ EXCEPT !.pc = "create",
                           !.waypoints = generate_waypoints(sh.origin_lat,
                               sh.origin_lng, sh.dest_lat, sh.dest_lng,
                               tasks[t].num_points, seed),
                           !.i = 1,
                           !.current_time = now]]
    /\ resp' = NoResp
    /\ UNCHANGED <<now, admin_sessions, shipments, history, checkpoints,
                   subscribers, simstates, requests, outbox>>

\* `if not simulation_state:` the task stores a new SimulationState
run_simulation_create(t) ==
    /\ tasks[t].pc = "create"
    /\ simstates' = Append(simstates,
          [shipment_id |-> tasks[t].shipment_id, status |-> "running",
           current_position |-> 0, waypoints |-> tasks[t].waypoints,
           current_time |-> tasks[t].current_time,
           num_points |-> tasks[t].num_points,
           step_hours |-> tasks[t].step_hours])
    /\ tasks' = [tasks EXCEPT ![t] = [@ EXCEPT !.pc = "loop",
                                               !.state = Len(simstates) + 1]]
    /\ resp' = NoResp
    /\ UNCHANGED <<now, admin_sessions, shipments, history, checkpoints,
                   subscribers, requests, outbox>>

\* a loop that does not look at the stored status: it goes on while
\* waypoints are left
run_simulation_check_blind(t) ==
    /\ tasks[t].pc = "loop"
    /\ tasks' = [tasks EXCEPT ![t].pc =
          IF tasks[t].i > Len(tasks[t].waypoints) THEN "final" ELSE "body"]
    /\ resp' = NoResp
    /\ UNCHANGED <<now, admin_sessions, shipments, history, checkpoints,
                   subscribers, simstates, requests, outbox>>

\* the top of one iteration: the loop ends when the waypoints are used up,
\* and breaks when the stored status is no longer running.  After a break
\* the test that follows the loop sees the status the break has just loaded
\* (no commit lies in between), so the task returns without writing.
run_simulation_check(t) ==
    /\ tasks[t].pc = "loop"
    /\ tasks' = [tasks EXCEPT ![t].pc =
          IF tasks[t].i > Len(tasks[t].waypoints) THEN "final"
          ELSE IF simstates[tasks[t].state].status # "running" THEN "done"
          ELSE "body"]
    /\ resp' = NoResp
    /\ UNCHANGED <<now, admin_sessions, shipments, history, checkpoints,
                   subscribers, simstates, requests, outbox>>

\* the body of one iteration: the status, the Checkpoint at position i with
\* timestamp = current_time, one transaction, the fan-out, the clock step.
\* An exception ends the task in `except Exception`: the ZeroDivisionError
\* of the status expression before anything is stored, a .delay that raises
\* after the commit.  sent is what the fan-out handed over.
run_simulation_step(t, sent) ==
    /\ tasks[t].pc = "body"
    /\ LET k == tasks[t]
           sid == k.shipment_id
           status == StepStatus(k.i, k.num_points)
           cp == [shipment_id |-> sid, position |-> k.i,
                  lat |-> k.waypoints[k.i].lat, lng |-> k.waypoints[k.i].lng,
                  label |-> "Checkpoint", status |-> status,
                  timestamp |-> k.current_time]
       IN IF StepRaises(k.i, k.num_points)
          THEN /\ tasks' = [tasks EXCEPT ![t].pc = "failed"]
               /\ UNCHANGED <<shipments, history, checkpoints, simstates, outbox>>
          ELSE /\ checkpoints' = Append(checkpoints, cp)
               /\ IF status # "None" /\ status # shipments[sid].status
                  THEN /\ shipments' = [shipments EXCEPT ![sid] =
                             [@ EXCEPT !.status = status,
                                       !.eta = IF status = DELIVERED
                                               THEN cp.timestamp ELSE @]]
                       /\ history' = Append(history,
                             [shipment_id |-> sid, status |-> status,
                              timestamp |-> now])
                  ELSE UNCHANGED <<shipments, history>>
               /\ simstates' = [simstates EXCEPT ![k.state] =
                     [@ EXCEPT !.current_position = k.i,
                               !.current_time = k.current_time]]
               /\ outbox' = outbox \cup sent
               /\ tasks' = [tasks EXCEPT ![t] =
                     IF sent # Notifications(sid, Len(checkpoints) + 1)
                     THEN [@ EXCEPT !.pc = "failed"]
                     ELSE [@ EXCEPT !.pc = "loop", !.i = k.i + 1,
                                    !.current_time = k.current_time + k.step_hours]]
    /\ resp' = NoResp
    /\ UNCHANGED <<now, admin_sessions, subscribers, requests>>

\* after the last waypoint: `if simulation_state.status == 'running'` reads
\* the stored status (the commit of the last iteration expired the object)
run_simulation_finish(t) ==
    /\ tasks[t].pc = "final"
    /\ tasks' = [tasks EXCEPT ![t].pc =
          IF simstates[tasks[t].state].status = "running" THEN "complete"
          ELSE "done"]
    /\ resp' = NoResp
    /\ UNCHANGED <<now, admin_sessions, shipments, history, checkpoints,
                   subscribers, simstates, requests, outbox>>

\* ... and a transaction of its own then writes status = 'completed'; the
\* UPDATE names the row by its id and carries no test of the status, so it
\* overwrites whatever another worker has committed since the read
run_simulation_complete(t) ==
    /\ tasks[t].pc = "complete"
    /\ simstates' = [simstates EXCEPT ![tasks[t].state].status = "completed"]
    /\ tasks' = [tasks EXCEPT ![t].pc = "done"]
    /\ resp' = NoResp
    /\ UNCHANGED <<now, admin_sessions, shipments, history, checkpoints,
                   subscribers, requests, outbox>>

(***************************************************************************)
(* Subscribe / Unsubscribe.                                                *)
(***************************************************************************)
\* Subscriber(shipment_id, email or '', phone or None) in one transaction.
\* The subscriber table has no unique index, so the INSERT always succeeds.
Subscribe(op, created, tracking, email, phone) ==
    /\ Len(subscribers) < MaxSubscribers
    /\ LET sid == ShipmentByTracking(tracking)
       IN IF tracking = "" \/ (email = "" /\ phone = "None")
          THEN /\ resp' = Reply(op, tracking, 400)
               /\ UNCHANGED subscribers
          ELSE IF sid = 0
          THEN /\ resp' = Reply(op, tracking, 404)
               /\ UNCHANGED subscribers
          ELSE /\ subscribers' = Append(subscribers,
                     [shipment_id |-> sid, email |-> email, phone |-> phone,
                      is_active |-> TRUE])
               /\ resp' = Reply(op, tracking, created)
    /\ UNCHANGED <<now, admin_sessions, shipments, history, checkpoints,
                   simstates, requests, tasks, outbox>>

\* POST /shipments/<tracking>/subscribe
subscribe(tracking, email, phone) ==
    /\ Clean(tracking) # ""
    /\ Subscribe("subscribe", 201, Clean(tracking), Clean(email), phone)

\* admin form, form_type = subscribe
handle_subscribe_form(tracking, email, phone) ==
    Subscribe("handle_subscribe_form", 302, Clean(tracking), Clean(email), phone)

\* /remove_sub TRACKING|email of the polling bot: the first subscriber row of
\* the shipment with that e-mail, lower-cased, is deactivated.  The bot
\* answers in text; 200 stands for "Removed subscriber", 404 for a shipment
\* or subscriber that is not found.
cmd_remove_sub(tracking, email) ==
    /\ LET tr == Clean(tracking)
           sid == ShipmentByTracking(tr)
           ids == {j \in DOMAIN subscribers :
                     /\ subscribers[j].shipment_id = sid
                     /\ subscribers[j].email = Lower(Clean(email))}
       IN IF sid = 0 \/ ids = {}
          THEN /\ resp' = Reply("cmd_remove_sub", tr, 404)
               /\ UNCHANGED subscribers
          ELSE /\ subscribers' = [subscribers EXCEPT
                     ![CHOOSE j \in ids : \A k \in ids : j <= k].is_active = FALSE]
               /\ resp' = Reply("cmd_remove_sub", tr, 200)
    /\ UNCHANGED <<now, admin_sessions, shipments, history, checkpoints,
                   simstates, requests, tasks, outbox>>

(***************************************************************************)
(* Telegram admin callbacks (handle_callback_query).                       *)
(***************************************************************************)
\* select_status|/admin_update_status|<tracking>|<status>: the status is set
\* and a StatusHistory row added in one transaction; eta is not touched.
\* The buttons of the status keyboard carry the ShipmentStatus values.
select_status(tracking, status) ==
    /\ LET sid == ShipmentByTracking(tracking)
       IN IF sid = 0
          THEN /\ resp' = Reply("select_status", tracking, 404)
               /\ UNCHANGED <<shipments, history>>
          ELSE /\ shipments' = [shipments EXCEPT ![sid].status = status]
               /\ history' = Append(history,
                     [shipment_id |-> sid, status |-> status, timestamp |-> now])
               /\ resp' = Reply("select_status", tracking, 200)
    /\ UNCHANGED <<now, admin_sessions, checkpoints, subscribers, simstates,
                   requests, tasks, outbox>>

(***************************************************************************)
(* Request inputs.                                                         *)
(***************************************************************************)
LocA == [lat |-> 650, lng |-> 340, address |-> "None"]
LocB == [lat |-> 5150, lng |-> 0 - 10, address |-> "None"]
LocOut == [lat |-> 9001, lng |-> 0, address |-> "None"]
LocAddr == [lat |-> Null, lng |-> Null, address |-> "Lagos"]
LocNone == [lat |-> Null, lng |-> Null, address |-> "None"]
LocBoth == [lat |-> 650, lng |-> 340, address |-> "Lagos"]

GeoOk == [ok |-> TRUE, lat |-> 650, lng |-> 340]

\* the geocoder is asked only for an address
GeocodeFor(loc) ==
    IF loc.address \in {"None", ""} THEN {GeoOk} ELSE GeocodeOutcomes

\* CreateShipment payloads: well-formed ones that differ in every field, and
\* one malformed payload per validation rule
ShipmentInputs ==
    {[tracking |-> tr, title |-> "Consignment", origin |-> o, status |-> CREATED] :
        tr \in {"T1", " T1 ", "T2"}, o \in {LocA, LocAddr}}
    \cup {[tracking |-> tr, title |-> "Box", origin |-> LocA, status |-> DELIVERED] :
             tr \in {"T1", "T2"}}
    \cup {[tracking |-> tr, title |-> "Box", origin |-> LocOut, status |-> CREATED] :
             tr \in {"T1", "T2"}}
    \cup {[tracking |-> "T1", title |-> "Box", origin |-> LocA, status |-> "Lost"],
          [tracking |-> "  ", title |-> "Box", origin |-> LocA, status |-> CREATED]}

\* AppendCheckpoint payloads, likewise
CheckpointInputs ==
    {[loc |-> l, label |-> "Picked up", status |-> st] :
        l \in {LocA, LocAddr}, st \in {"None", IN_TRANSIT, DELIVERED}}
    \cup {[loc |-> LocNone, label |-> "Picked up", status |-> "None"],
          [loc |-> LocBoth, label |-> "Picked up", status |-> "None"],
          [loc |-> LocA, label |-> "  ", status |-> "None"],
          [loc |-> LocA, label |-> "Picked up", status |-> "Lost"]}

ContactInputs ==
    {[email |-> "a@x.io", phone |-> "None"],
     [email |-> "A@x.io", phone |-> "None"],
     [email |-> "", phone |-> "+15550100"],
     [email |-> "", phone |-> "None"]}

Seeds == {0, 1, 2}

(***************************************************************************)
(* The requests and task steps of the specifications.                      *)
(***************************************************************************)
CreateApi ==
    \E x \in ShipmentInputs : \E g \in GeocodeFor(x.origin) :
        create_shipment(x.tracking, x.title, x.origin, LocB, x.status, g, GeoOk)

CreateForm ==
    \E x \in ShipmentInputs : \E g \in GeocodeFor(x.origin) :
        handle_shipment_form(x.tracking, x.title, x.origin, LocB, x.status, g, GeoOk)

\* one shipment, T1 from Lagos to London, as the other specifications use it
\* a location on the edge of the valid range
LocEdge == [lat |-> MaxLat, lng |-> MaxLng, address |-> "None"]

\* a first shipment whose origin lies on the edge of the valid range
SeedEdgeShipment ==
    shipments = <<>>
      /\ create_shipment("T1", "Consignment", LocEdge, LocB, CREATED, GeoOk, GeoOk)

SeedShipment ==
    \E st \in {CREATED, DELIVERED} :
        shipments = <<>> /\ create_shipment("T1", "Consignment", LocA, LocB, st, GeoOk, GeoOk)

AppendApiRead ==
    \E r \in 1..MaxRequests, tr \in {"T1", "T2"}, x \in CheckpointInputs :
      \E g \in GeocodeFor(x.loc) :
        add_checkpoint_read(r, tr, x.loc, x.label, x.status, g)

AppendFormRead ==
    \E r \in 1..MaxRequests, tr \in {"T1", "T2"}, x \in CheckpointInputs :
      \E g \in GeocodeFor(x.loc) :
        handle_checkpoint_form_read(r, tr, x.loc, x.label, x.status, g)

AppendCommit ==
    \E r \in 1..MaxRequests :
      \E sent \in DispatchOutcomes(requests[r].shipment_id, Len(checkpoints) + 1) :
        CheckpointCommit(r, sent)

AppendSerial ==
    \E x \in CheckpointInputs :
      \E sent \in DispatchOutcomes(ShipmentByTracking("T1"), Len(checkpoints) + 1) :
        add_checkpoint("T1", x.loc, x.label, x.status, GeoOk, sent)

\* task slots are handed out in order
NextFree(t) == FreeTask(t) /\ \A u \in 1..(t - 1) : ~FreeTask(u)

\* StartSimulation requests: every accepted num_points, the values next to
\* the accepted range, and a missing field
StartInputs ==
    {[num_points |-> n, step_hours |-> h] :
        n \in (MinNumPoints - 1)..(MaxNumPoints + 1), h \in {1, 2}}
    \cup {[num_points |-> 4, step_hours |-> MaxStepHours + 1],
          [num_points |-> Null, step_hours |-> 1]}

\* the first StartSimulation request for the shipment
StartOnce ==
    /\ \A t \in 1..MaxTasks : FreeTask(t)
    /\ \E x \in StartInputs :
          handle_simulation_form(1, "T1", x.num_points, x.step_hours)

\* as StartOnce, with few waypoints
StartOnceShort ==
    /\ \A t \in 1..MaxTasks : FreeTask(t)
    /\ \E n \in {2, 3} : handle_simulation_form(1, "T1", n, 1)

\* any number of StartSimulation requests
StartAny ==
    \E t \in 1..MaxTasks, n \in {2, 3} :
        NextFree(t) /\ handle_simulation_form(t, "T1", n, 1)

Pause == \E tr \in {"T1", "T2"} : pause_simulation(tr)

Continue ==
    \E t \in 1..MaxTasks, tr \in {"T1", "T2"} :
        NextFree(t) /\ continue_simulation(t, tr)

TaskLoad == \E t \in 1..MaxTasks, seed \in Seeds : run_simulation_load(t, seed)

TaskCreate == \E t \in 1..MaxTasks : run_simulation_create(t)

TaskCheck == \E t \in 1..MaxTasks : run_simulation_check(t)

TaskStep ==
    \E t \in 1..MaxTasks :
      \E sent \in DispatchOutcomes(tasks[t].shipment_id, Len(checkpoints) + 1) :
        run_simulation_step(t, sent)

TaskFinish == \E t \in 1..MaxTasks : run_simulation_finish(t)

TaskComplete == \E t \in 1..MaxTasks : run_simulation_complete(t)

\* what the Celery worker does
TaskRuns ==
    TaskLoad \/ TaskCreate \/ TaskCheck \/ TaskStep \/ TaskFinish \/ TaskComplete

SubscribeApi ==
    \E tr \in {"T1", "T2"}, c \in ContactInputs : subscribe(tr, c.email, c.phone)

SubscribeForm ==
    \E tr \in {"T1", "  "}, c \in ContactInputs :
        handle_subscribe_form(tr, c.email, c.phone)

RemoveSub ==
    \E tr \in {"T1", "T2"}, e \in {"a@x.io", "A@x.io"} : cmd_remove_sub(tr, e)

\* the admin picks a status on the status keyboard
\* the rows that refer to shipment sid through their shipment_id column
HasChildRows(sid) ==
    \/ \E j \in DOMAIN history : history[j].shipment_id = sid
    \/ \E j \in DOMAIN checkpoints : checkpoints[j].shipment_id = sid
    \/ \E j \in DOMAIN subscribers : subscribers[j].shipment_id = sid
    \/ \E j \in DOMAIN simstates : simstates[j].shipment_id = sid

\* select_shipment|/admin_delete_shipment|<tracking>: db.session.delete on the
\* shipment alone.  The four relationships of Shipment declare no cascade, so
\* the flush sets shipment_id of every child row to NULL; the column is
\* nullable=False in all four tables, the UPDATE raises IntegrityError, the
\* transaction is rolled back and the handler answers 500.
admin_delete_shipment(tracking) ==
    /\ LET sid == ShipmentByTracking(tracking)
       IN IF sid = 0
          THEN /\ resp' = Reply("admin_delete_shipment", tracking, 404)
               /\ UNCHANGED shipments
          ELSE IF HasChildRows(sid)
          THEN /\ resp' = Reply("admin_delete_shipment", tracking, 500)
               /\ UNCHANGED shipments
          ELSE /\ shipments' = [shipments EXCEPT ![sid].deleted = TRUE]
               /\ resp' = Reply("admin_delete_shipment", tracking, 200)
    /\ UNCHANGED <<now, admin_sessions, history, checkpoints, subscribers,
                   simstates, requests, tasks, outbox>>

\* select_shipment|/admin_pause_sim|<tracking>: the test and the write of
\* pause_simulation, answered in JSON
admin_pause_sim(tracking) ==
    /\ LET sid == ShipmentByTracking(tracking)
       IN IF sid = 0
          THEN /\ resp' = Reply("admin_pause_sim", tracking, 404)
               /\ UNCHANGED simstates
          ELSE IF StateOf(sid) = 0 \/ simstates[StateOf(sid)].status # "running"
          THEN /\ resp' = Reply("admin_pause_sim", tracking, 400)
               /\ UNCHANGED simstates
          ELSE /\ simstates' = [simstates EXCEPT ![StateOf(sid)].status = "paused"]
               /\ resp' = Reply("admin_pause_sim", tracking, 200)
    /\ UNCHANGED <<now, admin_sessions, shipments, history, checkpoints,
                   subscribers, requests, tasks, outbox>>

\* select_shipment|/admin_continue_sim|<tracking>: the test and the write of
\* continue_simulation and a new task, answered in JSON
admin_continue_sim(t, tracking) ==
    /\ FreeTask(t)
    /\ LET sid == ShipmentByTracking(tracking)
       IN IF sid = 0
          THEN /\ resp' = Reply("admin_continue_sim", tracking, 404)
               /\ UNCHANGED <<simstates, tasks>>
          ELSE IF StateOf(sid) = 0 \/ simstates[StateOf(sid)].status # "paused"
          THEN /\ resp' = Reply("admin_continue_sim", tracking, 400)
               /\ UNCHANGED <<simstates, tasks>>
          ELSE /\ simstates' = [simstates EXCEPT ![StateOf(sid)].status = "running"]
               /\ tasks' = Enqueue(t, sid, simstates[StateOf(sid)].num_points,
                                   simstates[StateOf(sid)].step_hours)
               /\ resp' = Reply("admin_continue_sim", tracking, 200)
    /\ UNCHANGED <<now, admin_sessions, shipments, history, checkpoints,
                   subscribers, requests, outbox>>

\* is_admin: the chat has a session that is authenticated and not expired
IsAdmin(chat) ==
    admin_sessions[chat].authenticated /\ now < admin_sessions[chat].expires

\* /admin_login <password>: a right password opens a session of one hour
admin_login(chat, password_ok) ==
    /\ admin_sessions' =
          IF password_ok
          THEN [admin_sessions EXCEPT ![chat] =
                   [authenticated |-> TRUE, expires |-> now + SessionHours]]
          ELSE admin_sessions
    /\ resp' = Reply("admin_login", "None", 200)
    /\ UNCHANGED <<now, shipments, history, checkpoints, subscribers, simstates,
                   requests, tasks, outbox>>

\* the callback data whose text starts with '/admin_': the buttons of the
\* admin keyboard
AdminCommands ==
    {"/admin_update_status", "/admin_delete_shipment", "/admin_list_subscribers",
     "/admin_pause_sim", "/admin_continue_sim", "/admin_logout"}

\* the answer of a callback that writes nothing
CallbackReply(command, tracking, code) ==
    /\ resp' = Reply(command, tracking, code)
    /\ UNCHANGED <<now, admin_sessions, shipments, history, checkpoints,
                   subscribers, simstates, requests, tasks, outbox>>

\* handle_callback_query(chat_id, callback_data, message_id).  d is the
\* callback data split at '|': command, sub_command, tracking, status.  The
\* authorization test looks at the start of the whole text only, so it covers
\* the buttons of the admin keyboard and none of the select_shipment|... and
\* select_status|... data that carry out the actions.
handle_callback_query(t, chat, d) ==
    IF ~IsAdmin(chat) /\ d.command \in AdminCommands
    THEN CallbackReply(d.command, "None", 403)
    ELSE IF d.command = "/admin_logout"
    THEN /\ admin_sessions' = [admin_sessions EXCEPT ![chat] = NoSession]
         /\ resp' = Reply(d.command, "None", 200)
         /\ UNCHANGED <<now, shipments, history, checkpoints, subscribers,
                        simstates, requests, tasks, outbox>>
    ELSE IF d.command \in AdminCommands
    THEN CallbackReply(d.command, "None", 200)
    ELSE IF d.command = "select_status"
    THEN select_status(d.tracking, d.status)
    ELSE IF d.command = "select_shipment" /\ d.sub_command = "/admin_delete_shipment"
    THEN admin_delete_shipment(d.tracking)
    ELSE IF d.command = "select_shipment" /\ d.sub_command = "/admin_pause_sim"
    THEN admin_pause_sim(d.tracking)
    ELSE IF d.command = "select_shipment" /\ d.sub_command = "/admin_continue_sim"
    THEN admin_continue_sim(t, d.tracking)
    ELSE IF d.command = "select_shipment" /\ d.sub_command = "/admin_list_subscribers"
    THEN CallbackReply(d.sub_command, d.tracking,
                       IF ShipmentByTracking(d.tracking) = 0 THEN 404 ELSE 200)
    ELSE CallbackReply(d.command, "None", 200)

UpdateStatus ==
    \E tr \in {"T1", "T2"}, st \in ShipmentStatus :
        Len(history) < MaxHistory /\ select_status(tr, st)

(***************************************************************************)
(* Specifications.                                                         *)
(***************************************************************************)
\* shipment creation through both surfaces
NextCreate == CreateApi \/ CreateForm \/ Tick

SpecCreate == Init /\ [][NextCreate]_vars

\* checkpoint appends by concurrent workers on the seeded shipment
NextAppend == SeedShipment \/ AppendApiRead \/ AppendFormRead \/ AppendCommit \/ Tick

SpecAppend == Init /\ [][NextAppend]_vars

\* add_checkpoint calls and one simulation, no two steps overlapping: an
\* append runs whole, and only between two iterations of the loop
NextSerial ==
    \/ SeedShipment
    \/ (\A t \in 1..MaxTasks : tasks[t].pc \notin {"create", "body"}) /\ AppendSerial
    \/ StartOnceShort
    \/ TaskRuns

SpecSerial == Init /\ [][NextSerial]_vars

\* the simulator under every interleaving of Start, Pause and Continue
NextSim == SeedShipment \/ StartAny \/ Pause \/ Continue \/ TaskRuns

SpecSim == Init /\ [][NextSim]_vars

\* StartSimulation requests at any time, while tasks run and are paused; the
\* checkpoint table is capped
NextStart ==
    \/ SeedShipment
    \/ \E t \in 1..MaxTasks : NextFree(t) /\ handle_simulation_form(t, "T1", 3, 1)
    \/ pause_simulation("T1")
    \/ TaskLoad \/ TaskCreate \/ TaskCheck \/ TaskFinish \/ TaskComplete
    \/ Len(checkpoints) <= MaxCheckpoints /\ TaskStep

SpecStart == Init /\ [][NextStart]_vars

\* one started simulation that is paused and never continued; the Celery
\* worker keeps running a task it has taken
NextPause == SeedShipment \/ StartOnceShort \/ Pause \/ TaskRuns

SpecPause == Init /\ [][NextPause]_vars /\ WF_vars(TaskRuns)

\* one started simulation, paused and continued
NextResume == SeedShipment \/ StartOnceShort \/ Pause \/ Continue \/ TaskRuns

SpecResume == Init /\ [][NextResume]_vars

\* one started simulation that is never paused; the Celery worker keeps
\* running a task it has taken
NextRun == SeedShipment \/ StartOnce \/ TaskRuns \/ Tick

SpecRun == Init /\ [][NextRun]_vars /\ WF_vars(TaskRuns)

\* subscriptions
NextSub == SeedShipment \/ SubscribeApi \/ SubscribeForm \/ RemoveSub

SpecSub == Init /\ [][NextSub]_vars

\* simulations of shipments in the middle and on the edge of the valid range
NextEdge == SeedShipment \/ SeedEdgeShipment \/ StartOnce \/ TaskRuns

SpecEdge == Init /\ [][NextEdge]_vars

\* no AppendCheckpoint request is between its read and its commit
NoRequestInFlight == \A r \in 1..MaxRequests : requests[r].pc = "idle"

\* AppendCheckpoint requests of every shape, one at a time, on known and
\* unknown shipments
NextValidate ==
    \/ SeedShipment
    \/ NoRequestInFlight /\ AppendApiRead
    \/ NoRequestInFlight /\ AppendFormRead
    \/ AppendCommit

SpecValidate == Init /\ [][NextValidate]_vars

\* checkpoint appends, status updates and one simulation, one after another
NextEta ==
    \/ SeedShipment
    \/ (\A t \in 1..MaxTasks : tasks[t].pc \notin {"create", "body"}) /\ AppendSerial
    \/ UpdateStatus
    \/ StartOnceShort
    \/ TaskRuns

SpecEta == Init /\ [][NextEta]_vars

\* subscribers come and go while checkpoints are appended and one simulation
\* runs, one step after another; the checkpoint table is capped
NextNotify ==
    \/ SeedShipment
    \/ subscribe("T1", "a@x.io", "+15550100")
    \/ (\E j \in DOMAIN subscribers : subscribers[j].is_active)
          /\ cmd_remove_sub("T1", "a@x.io")
    \/ /\ \A t \in 1..MaxTasks : tasks[t].pc \notin {"create", "body"}
       /\ \E sent \in DispatchOutcomes(ShipmentByTracking("T1"), Len(checkpoints) + 1) :
             add_checkpoint("T1", LocA, "Picked up", IN_TRANSIT, GeoOk, sent)
    \/ (\A t \in 1..MaxTasks : FreeTask(t)) /\ handle_simulation_form(1, "T1", 3, 1)
    \/ TaskLoad \/ TaskCreate \/ TaskCheck \/ TaskFinish \/ TaskComplete
    \/ Len(checkpoints) <= MaxCheckpoints /\ TaskStep

SpecNotify == Init /\ [][NextNotify]_vars

\* everything together
\* what a chat can send as callback data
CallbackData ==
    {[command |-> c, sub_command |-> "None", tracking |-> "None", status |-> "None"] :
        c \in AdminCommands \cup {"/cancel"}}
    \cup {[command |-> "select_shipment", sub_command |-> sc, tracking |-> tr,
           status |-> "None"] :
             sc \in AdminCommands \ {"/admin_update_status", "/admin_logout"},
             tr \in {"T1", "T2"}}
    \cup {[command |-> "select_status", sub_command |-> "/admin_update_status",
           tracking |-> "T1", status |-> st] : st \in {IN_TRANSIT, DELIVERED}}

Callback ==
    \E t \in 1..MaxTasks, chat \in Chats, d \in CallbackData :
        /\ NextFree(t) /\ Len(history) < MaxHistory
        /\ handle_callback_query(t, chat, d)

AdminLogin == \E chat \in Chats, ok \in BOOLEAN : admin_login(chat, ok)

\* chats that log in or not, let the session run out, and send callbacks
\* while a shipment and its simulation state exist
NextTelegram ==
    \/ SeedShipment \/ AdminLogin \/ Tick \/ Callback
    \/ (\A t \in 1..MaxTasks : FreeTask(t)) /\ handle_simulation_form(1, "T1", 3, 1)
    \/ TaskLoad \/ TaskCreate

SpecTelegram == Init /\ [][NextTelegram]_vars

DeleteShipment == \E tr \in {"T1", "T2"} : admin_delete_shipment(tr)

\* a shipment that collects checkpoints, subscribers and a simulation state,
\* and admin deletions in between
NextDelete ==
    \/ SeedShipment
    \/ subscribe("T1", "a@x.io", "+15550100")
    \/ \E sent \in DispatchOutcomes(ShipmentByTracking("T1"), Len(checkpoints) + 1) :
          add_checkpoint("T1", LocA, "Picked up", IN_TRANSIT, GeoOk, sent)
    \/ (\A t \in 1..MaxTasks : FreeTask(t)) /\ handle_simulation_form(1, "T1", 3, 1)
    \/ TaskLoad \/ TaskCreate
    \/ DeleteShipment

SpecDelete == Init /\ [][NextDelete]_vars

Next ==
    \/ CreateApi \/ CreateForm \/ AppendApiRead \/ AppendFormRead \/ AppendCommit
    \/ StartAny \/ Pause \/ Continue \/ TaskRuns
    \/ SubscribeApi \/ SubscribeForm \/ RemoveSub \/ UpdateStatus
    \/ DeleteShipment \/ AdminLogin \/ Callback \/ Tick

Spec == Init /\ [][Next]_vars

(***************************************************************************)
(* Properties.                                                             *)
(***************************************************************************)
\* rows of checkpoint that belong to shipment sid
CheckpointIds(sid) == {j \in DOMAIN checkpoints : checkpoints[j].shipment_id = sid}

\* the checkpoints of shipment sid that the simulator stored, oldest first,
\* from row i on
RECURSIVE SimulatedFrom(_, _)
SimulatedFrom(sid, i) ==
    IF i > Len(checkpoints) THEN <<>>
    ELSE (IF checkpoints[i].shipment_id = sid /\ checkpoints[i].label = "Checkpoint"
          THEN <<checkpoints[i]>> ELSE <<>>) \o SimulatedFrom(sid, i + 1)

Simulated(sid) == SimulatedFrom(sid, 1)

\* C1: when N concurrent AppendCheckpoint calls on a shipment have all
\* returned, the shipment's checkpoint positions are exactly 1..N, each used
\* once.
C1_PositionsAreOneToN ==
    NoRequestInFlight =>
        \A sid \in DOMAIN shipments :
            {checkpoints[j].position : j \in CheckpointIds(sid)}
                = 1..Cardinality(CheckpointIds(sid))

\* C2: every step that stores a checkpoint gives it a position above every
\* position the shipment already holds.
C2_NewPositionAboveAll ==
    [][Len(checkpoints') > Len(checkpoints) =>
          checkpoints'[Len(checkpoints')].position
              > MaxPosition(checkpoints'[Len(checkpoints')].shipment_id)]_vars

\* a task whose loop is about to store a checkpoint, or will on its next
\* iteration as things stand
Producing(t) ==
    \/ tasks[t].pc = "body"
    \/ /\ tasks[t].pc = "loop"
       /\ tasks[t].i <= Len(tasks[t].waypoints)
       /\ simstates[tasks[t].state].status = "running"

\* C3: no two run_simulation_async loops produce checkpoints for the same
\* shipment at the same time.
C3_SingleFlight ==
    \A t1 \in 1..MaxTasks, t2 \in 1..MaxTasks :
        (t1 # t2 /\ Producing(t1) /\ Producing(t2))
            => tasks[t1].shipment_id # tasks[t2].shipment_id

\* C4: the simulated checkpoints of a shipment are, in order, waypoint 1 at
\* position 1, waypoint 2 at position 2, ... of the persisted waypoint list,
\* none twice and none skipped; when the state is completed and every task
\* has ended, all waypoints are there.
C4_ResumeEqualsUninterrupted ==
    \A sid \in DOMAIN shipments :
        StateOf(sid) # 0 =>
            LET wp == simstates[StateOf(sid)].waypoints
                got == Simulated(sid)
            IN /\ Len(got) <= Len(wp)
               /\ \A k \in 1..Min2(Len(got), Len(wp)) :
                     /\ got[k].position = k
                     /\ got[k].lat = wp[k].lat
                     /\ got[k].lng = wp[k].lng
               /\ (/\ simstates[StateOf(sid)].status = "completed"
                   /\ \A t \in 1..MaxTasks : tasks[t].pc \in {"idle", "done", "failed"})
                      => Len(got) = Len(wp)

\* C5: when a started, never paused simulation has ended, it has stored
\* num_points + 1 checkpoints, the last one Delivered, and the shipment is
\* Delivered with eta equal to the last checkpoint's timestamp.
C5_RunDelivers ==
    \A t \in 1..MaxTasks :
        tasks[t].pc \in {"done", "failed"} =>
            LET sid == tasks[t].shipment_id
                got == Simulated(sid)
            IN /\ Len(got) = tasks[t].num_points + 1
               /\ got[Len(got)].status = DELIVERED
               /\ shipments[sid].status = DELIVERED
               /\ shipments[sid].eta = got[Len(got)].timestamp

\* C6: a simulation whose start was accepted eventually has its
\* SimulationState completed.
C6_EventuallyCompleted ==
    \A t \in 1..MaxTasks :
        (tasks[t].pc = "queued") ~>
            (/\ StateOf(tasks[t].shipment_id) # 0
             /\ simstates[StateOf(tasks[t].shipment_id)].status = "completed")

CreateOps == {"create_shipment", "handle_shipment_form"}

\* no two stored shipments share a tracking number
UniqueTracking ==
    \A i \in DOMAIN shipments, j \in DOMAIN shipments :
        (~shipments[i].deleted /\ ~shipments[j].deleted
            /\ shipments[i].tracking = shipments[j].tracking) => i = j

\* the step answers a CreateShipment whose tracking number was stored before
DuplicateCreate ==
    resp'.op \in CreateOps /\ ShipmentByTracking(resp'.tracking) # 0

\* the payload passes every check that comes before the INSERT
ApiAccepts(x, g) ==
    /\ ShipmentCreateValid(x.tracking, x.title, x.origin, LocB, x.status)
    /\ Resolve(x.origin, g).ok

FormAccepts(x, g) ==
    /\ ShipmentFormValid(x.tracking, x.title, x.origin, LocB, x.status)
    /\ FormResolve(x.origin, g).ok

\* C7, as stated: every CreateShipment with a stored tracking number is
\* rejected as a duplicate (409) and leaves shipments and StatusHistory as
\* they were; tracking numbers stay unique.
C7_DuplicateAlways409 ==
    [][/\ UniqueTracking'
       /\ DuplicateCreate =>
             (resp'.code = 409 /\ shipments' = shipments /\ history' = history)]_vars

\* C7, amended: tracking numbers stay unique; a CreateShipment with a stored
\* tracking number is rejected and changes neither shipments nor
\* StatusHistory; it is rejected as a duplicate (409) when its payload is
\* otherwise acceptable, and with a validation error (400) when it is not.
C7_DuplicateRejected ==
    [][/\ UniqueTracking'
       /\ DuplicateCreate =>
             (/\ resp'.code \in {400, 409}
              /\ shipments' = shipments /\ history' = history)
       /\ \A x \in ShipmentInputs : \A g \in GeocodeFor(x.origin) :
             /\ (/\ ShipmentByTracking(Clean(x.tracking)) # 0
                 /\ create_shipment(x.tracking, x.title, x.origin, LocB,
                                    x.status, g, GeoOk))
                   => (resp'.code = 409 <=> ApiAccepts(x, g))
             /\ (/\ ShipmentByTracking(Clean(x.tracking)) # 0
                 /\ handle_shipment_form(x.tracking, x.title, x.origin, LocB,
                                         x.status, g, GeoOk))
                   => (resp'.code = 409 <=> FormAccepts(x, g))]_vars

\* C7 witness: a well-formed CreateShipment for a stored tracking number has
\* just been answered 409, the earlier shipment and its one StatusHistory
\* row still the only ones stored
C7_Witness ==
    /\ resp.op \in CreateOps /\ resp.code = 409
    /\ ShipmentByTracking(resp.tracking) = 1
    /\ Len(shipments) = 1 /\ Len(history) = 1

\* the subscriber rows of one shipment and contact
RowsFor(subs, sid, email, phone) ==
    {j \in DOMAIN subs :
        subs[j].shipment_id = sid /\ subs[j].email = email /\ subs[j].phone = phone}

ActiveRowsFor(subs, sid, email, phone) ==
    {j \in RowsFor(subs, sid, email, phone) : subs[j].is_active}

\* C8: however often a contact subscribes to a shipment, at most one active
\* Subscriber row exists for that shipment and contact.
C8_OneActiveSubscription ==
    \A sid \in DOMAIN shipments, c \in ContactInputs :
        Cardinality(ActiveRowsFor(subscribers, sid, c.email, c.phone)) <= 1

\* C9: a Subscribe that follows an Unsubscribe of the same shipment and
\* contact (one row, inactive, before the step; an active row after it)
\* leaves one row for the pair, and that row is active.
C9_ResubscribeReactivates ==
    [][\A sid \in DOMAIN shipments, c \in ContactInputs :
          (/\ Cardinality(RowsFor(subscribers, sid, c.email, c.phone)) = 1
           /\ ActiveRowsFor(subscribers, sid, c.email, c.phone) = {}
           /\ ActiveRowsFor(subscribers', sid, c.email, c.phone) # {})
             => /\ RowsFor(subscribers', sid, c.email, c.phone)
                     = RowsFor(subscribers, sid, c.email, c.phone)
                /\ ActiveRowsFor(subscribers', sid, c.email, c.phone)
                     = RowsFor(subscribers, sid, c.email, c.phone)]_vars

\* C10: a step of AppendCheckpoint that stores a checkpoint with status
\* Delivered leaves shipment.eta equal to the timestamp stored on that
\* checkpoint.
C10_DeliveredEtaIsTimestamp ==
    [][(/\ Len(checkpoints') = Len(checkpoints) + 1
        /\ checkpoints'[Len(checkpoints')].label # "Checkpoint"
        /\ checkpoints'[Len(checkpoints')].status = DELIVERED)
          => shipments'[checkpoints'[Len(checkpoints')].shipment_id].eta
                = checkpoints'[Len(checkpoints')].timestamp]_vars

\* C11: a step that delivers a shipment by storing a Delivered checkpoint
\* leaves eta equal to that checkpoint's timestamp, and no step taken while
\* the shipment is Delivered changes its eta.
C11_EtaFixedOnceDelivered ==
    [][\A sid \in DOMAIN shipments :
          /\ (/\ shipments[sid].status # DELIVERED
              /\ shipments'[sid].status = DELIVERED
              /\ Len(checkpoints') = Len(checkpoints) + 1
              /\ checkpoints'[Len(checkpoints')].shipment_id = sid
              /\ checkpoints'[Len(checkpoints')].status = DELIVERED)
                => shipments'[sid].eta = checkpoints'[Len(checkpoints')].timestamp
          /\ shipments[sid].status = DELIVERED
                => shipments'[sid].eta = shipments[sid].eta]_vars

\* the shipment a StartSimulation answer is about
StartTarget == ShipmentByTracking(resp'.tracking)

\* C12: a StartSimulation for a shipment that is Delivered, or whose
\* SimulationState is running, is rejected (400); it starts no task and
\* changes no Shipment, Checkpoint or SimulationState row.
C12_StartRejected ==
    [][(/\ resp'.op = "handle_simulation_form"
        /\ StartTarget # 0
        /\ \/ shipments[StartTarget].status = DELIVERED
           \/ /\ StateOf(StartTarget) # 0
              /\ simstates[StateOf(StartTarget)].status = "running")
          => /\ resp'.code = 400
             /\ tasks' = tasks
             /\ shipments' = shipments
             /\ checkpoints' = checkpoints
             /\ simstates' = simstates]_vars

\* C12 witness: a StartSimulation has just been answered 400 for a shipment
\* that is not Delivered and whose simulation is running
C12_Witness ==
    /\ resp.op = "handle_simulation_form" /\ resp.code = 400
    /\ ShipmentByTracking(resp.tracking) # 0
    /\ shipments[ShipmentByTracking(resp.tracking)].status # DELIVERED
    /\ StateOf(ShipmentByTracking(resp.tracking)) # 0
    /\ simstates[StateOf(ShipmentByTracking(resp.tracking))].status = "running"

\* task t has loaded a SimulationState that is paused, and has not returned
PausedUnder(t) ==
    /\ tasks[t].pc \in {"loop", "body", "final"}
    /\ tasks[t].state # 0
    /\ simstates[tasks[t].state].status = "paused"

C14_DispatchFailureContained ==
    [][Len(checkpoints') = Len(checkpoints) + 1 =>
          IF checkpoints'[Len(checkpoints')].label # "Checkpoint"
          THEN resp'.code \in {201, 302}
          ELSE \A t \in 1..MaxTasks :
                  (tasks[t].pc = "body" /\ tasks'[t] # tasks[t])
                      => tasks'[t].pc = "loop"]_vars

\* the subscribers of shipment sid whose active flag is set
ActiveSubscribers(sid) ==
    {j \in DOMAIN subscribers :
        subscribers[j].shipment_id = sid /\ subscribers[j].is_active}

\* C15: a step that stores a checkpoint of a shipment hands over
\* notifications for that checkpoint to exactly the subscribers of the
\* shipment that are active in that step: to each of them, and to no other.
C15_ActiveSubscribersNotified ==
    [][Len(checkpoints') = Len(checkpoints) + 1 =>
          /\ \A n \in outbox' \ outbox : n.checkpoint = Len(checkpoints')
          /\ {n.subscriber : n \in outbox' \ outbox}
                = ActiveSubscribers(checkpoints'[Len(checkpoints')].shipment_id)]_vars

\* C16: every stored shipment has its origin and its destination within
\* latitude -90..90 and longitude -180..180, whether it came in through the
\* JSON API or through the admin form: no creation whose origin or
\* destination is out of that range stores a shipment
C16_StoredCoordinatesInRange ==
    \A i \in 1..Len(shipments) :
        /\ CoordinateValid(shipments[i].origin_lat, shipments[i].origin_lng)
        /\ CoordinateValid(shipments[i].dest_lat, shipments[i].dest_lng)

\* the request gives neither an address nor a complete lat/lng pair
GivesNeither(loc) ==
    loc.address \in {"None", ""} /\ (loc.lat = Null \/ loc.lng = Null)

\* the request gives an address together with a lat or a lng
GivesBoth(loc) ==
    loc.address \notin {"None", ""} /\ (loc.lat # Null \/ loc.lng # Null)

\* the step changed no row and left no request in flight
NothingPersisted ==
    /\ checkpoints' = checkpoints /\ shipments' = shipments
    /\ history' = history /\ requests' = requests

\* C17: an AppendCheckpoint on a stored shipment that gives neither an
\* address nor a complete lat/lng pair, or an address together with a lat or
\* lng, or a label that is empty after trimming, is answered with a
\* validation error (400) and persists nothing; on an unknown shipment the
\* JSON API answers 404 before it validates, and persists nothing either.
\* The admin form carries one location field, so it cannot give both.
C17_MalformedAppendRejected ==
    [][checkpoints' = checkpoints =>
        \A x \in CheckpointInputs :
          (GivesNeither(x.loc) \/ GivesBoth(x.loc) \/ Clean(x.label) = "") =>
            \A r \in 1..MaxRequests, tr \in {"T1", "T2"} :
              \A g \in GeocodeFor(x.loc) :
                /\ add_checkpoint_read(r, tr, x.loc, x.label, x.status, g)
                      => /\ NothingPersisted
                         /\ resp'.code =
                               IF ShipmentByTracking(tr) = 0 THEN 404 ELSE 400
                /\ (~GivesBoth(x.loc)
                      /\ handle_checkpoint_form_read(r, tr, x.loc, x.label,
                                                     x.status, g))
                      => NothingPersisted /\ resp'.code = 400]_vars

\* C17 as stated: every malformed AppendCheckpoint is answered with a
\* validation error (400), whatever shipment it names, and persists nothing
C17_MalformedAlways400 ==
    [][checkpoints' = checkpoints =>
        \A x \in CheckpointInputs :
          (GivesNeither(x.loc) \/ GivesBoth(x.loc) \/ Clean(x.label) = "") =>
            \A r \in 1..MaxRequests, tr \in {"T1", "T2"} :
              \A g \in GeocodeFor(x.loc) :
                add_checkpoint_read(r, tr, x.loc, x.label, x.status, g)
                  => NothingPersisted /\ resp'.code = 400]_vars

\* C17 witness: an AppendCheckpoint on the stored shipment has just been
\* answered 400, no checkpoint stored and no request in flight
C17_Witness ==
    /\ resp.op = "add_checkpoint" /\ resp.code = 400
    /\ ShipmentByTracking(resp.tracking) # 0
    /\ checkpoints = <<>> /\ NoRequestInFlight

\* C18: an admin deletion of a stored shipment succeeds, and afterwards the
\* shipment is gone together with every Checkpoint, Subscriber, StatusHistory
\* and SimulationState row that belonged to it
C18_DeleteRemovesAll ==
    [][\A tr \in {"T1", "T2"} :
         (ShipmentByTracking(tr) # 0 /\ admin_delete_shipment(tr)) =>
            LET sid == ShipmentByTracking(tr)
            IN /\ resp'.code = 200
               /\ shipments'[sid].deleted
               /\ \A j \in DOMAIN checkpoints' : checkpoints'[j].shipment_id # sid
               /\ \A j \in DOMAIN subscribers' : subscribers'[j].shipment_id # sid
               /\ \A j \in DOMAIN history' : history'[j].shipment_id # sid
               /\ \A j \in DOMAIN simstates' : simstates'[j].shipment_id # sid]_vars

\* x lies within the jitter of y
Near(x, y) == x - y <= Jitter /\ y - x <= Jitter

\* C19: the waypoints a simulation task has just generated for a shipment,
\* for a number of points from 2 to 10, are num_points + 1 in number; the
\* first lies within the jitter of the shipment's origin and the last within
\* the jitter of its destination, in latitude and in longitude
C19_WaypointsSpanRoute ==
    \A t \in 1..MaxTasks :
        tasks[t].pc = "create" =>
            LET w == tasks[t].waypoints
                n == tasks[t].num_points
                sh == shipments[tasks[t].shipment_id]
            IN /\ n \in MinNumPoints..MaxNumPoints
               /\ Len(w) = n + 1
               /\ Near(w[1].lat, sh.origin_lat) /\ Near(w[1].lng, sh.origin_lng)
               /\ Near(w[n + 1].lat, sh.dest_lat) /\ Near(w[n + 1].lng, sh.dest_lng)

\* C19 witness: a task holds the eleven waypoints it generated for ten points
C19_Witness ==
    \E t \in 1..MaxTasks :
        /\ tasks[t].pc = "create" /\ tasks[t].num_points = MaxNumPoints
        /\ Len(tasks[t].waypoints) = MaxNumPoints + 1

\* C20: the stored status of a simulation state changes only from running to
\* paused, from paused to running and from running to completed; a pause is
\* accepted only on a running state and a continue only on a paused one; no
\* step turns a paused or a completed state into completed or anything else
\* outside these three moves
C20_StatusTransitions ==
    [][/\ \A j \in DOMAIN simstates :
             simstates'[j].status # simstates[j].status =>
                <<simstates[j].status, simstates'[j].status>> \in
                    {<<"running", "paused">>, <<"paused", "running">>,
                     <<"running", "completed">>}
       /\ (resp'.op = "pause_simulation" /\ resp'.code = 302 /\ resp' # resp)
             => \E j \in DOMAIN simstates :
                   simstates[j].status = "running" /\ simstates'[j].status = "paused"
       /\ (resp'.op = "continue_simulation" /\ resp'.code = 302 /\ resp' # resp)
             => \E j \in DOMAIN simstates :
                   simstates[j].status = "paused" /\ simstates'[j].status = "running"]_vars

\* C21: a simulation state whose status is completed is never written again:
\* its status, current_position, current_time and waypoints are the same in
\* every later state, whatever request or task step comes
C21_CompletedIsImmutable ==
    [][\A j \in DOMAIN simstates :
          simstates[j].status = "completed" => simstates'[j] = simstates[j]]_vars

\* C22: no shipment ever has two simulation states, also when two starts of
\* the same shipment are accepted before either task has stored the state;
\* and the waypoints of a stored state are never replaced
C22_OneStatePerShipment ==
    /\ [](\A j, k \in DOMAIN simstates :
             simstates[j].shipment_id = simstates[k].shipment_id => j = k)
    /\ [][\A j \in DOMAIN simstates :
             simstates'[j].waypoints = simstates[j].waypoints]_vars

\* C23: a simulation state with status completed has current_position equal
\* to the number of its waypoints (num_points + 1), and for every waypoint a
\* simulated checkpoint of its shipment is stored at that position
C23_CompletedMeansAllProcessed ==
    \A j \in DOMAIN simstates :
        simstates[j].status = "completed" =>
            /\ Len(simstates[j].waypoints) = simstates[j].num_points + 1
            /\ simstates[j].current_position = Len(simstates[j].waypoints)
            /\ \A i \in 1..Len(simstates[j].waypoints) :
                  \E c \in DOMAIN checkpoints :
                     /\ checkpoints[c].shipment_id = simstates[j].shipment_id
                     /\ checkpoints[c].position = i
                     /\ checkpoints[c].label = "Checkpoint"

\* C24: two simulated checkpoints of a shipment at consecutive positions have
\* timestamps exactly step_hours apart, also when the simulation was paused
\* and continued between the two
C24_StepsAreOneStepApart ==
    \A c, d \in DOMAIN checkpoints :
        (/\ checkpoints[c].label = "Checkpoint" /\ checkpoints[d].label = "Checkpoint"
         /\ checkpoints[c].shipment_id = checkpoints[d].shipment_id
         /\ checkpoints[d].position = checkpoints[c].position + 1)
        => checkpoints[d].timestamp - checkpoints[c].timestamp
              = simstates[StateOf(checkpoints[c].shipment_id)].step_hours

\* C25: an AppendCheckpoint that stores a checkpoint sets the shipment status
\* and adds a StatusHistory row exactly when its status is given and differs
\* from the shipment's status; otherwise it adds no row and leaves the status
\* alone; and no two consecutive StatusHistory rows of a shipment carry the
\* same status
C25_HistoryOnlyOnChange ==
    /\ [][(/\ resp'.op \in {"add_checkpoint", "handle_checkpoint_form"}
           /\ Len(checkpoints') = Len(checkpoints) + 1) =>
            LET cp == checkpoints'[Len(checkpoints')]
                sid == cp.shipment_id
            IN IF cp.status # "None" /\ cp.status # shipments[sid].status
               THEN /\ shipments'[sid].status = cp.status
                    /\ Len(history') = Len(history) + 1
                    /\ history'[Len(history')].shipment_id = sid
                    /\ history'[Len(history')].status = cp.status
               ELSE /\ history' = history
                    /\ shipments'[sid].status = shipments[sid].status]_vars
    /\ [](\A j, k \in DOMAIN history :
             (/\ j < k /\ history[j].shipment_id = history[k].shipment_id
              /\ \A m \in (j + 1)..(k - 1) :
                    history[m].shipment_id # history[j].shipment_id)
             => history[j].status # history[k].status)

\* C26: when the origin and the destination of a shipment are valid
\* coordinates, every waypoint generated for it and every simulated
\* checkpoint stored for it is a valid coordinate too
C26_WaypointsStayValid ==
    \A i \in DOMAIN shipments :
        (/\ CoordinateValid(shipments[i].origin_lat, shipments[i].origin_lng)
         /\ CoordinateValid(shipments[i].dest_lat, shipments[i].dest_lng))
        => /\ \A t \in 1..MaxTasks :
                 tasks[t].shipment_id = i =>
                    \A w \in DOMAIN tasks[t].waypoints :
                       CoordinateValid(tasks[t].waypoints[w].lat,
                                       tasks[t].waypoints[w].lng)
           /\ \A c \in DOMAIN checkpoints :
                 (checkpoints[c].shipment_id = i /\ checkpoints[c].label = "Checkpoint")
                    => CoordinateValid(checkpoints[c].lat, checkpoints[c].lng)

\* the StatusHistory row added last for shipment sid (0 if it has none)
LastHistory(sid) ==
    LET rows == {j \in DOMAIN history : history[j].shipment_id = sid}
    IN IF rows = {} THEN 0 ELSE CHOOSE j \in rows : \A k \in rows : k <= j

\* C27: in every state the status of every shipment is the status of the
\* StatusHistory row added last for it
C27_StatusMatchesLastHistory ==
    \A i \in DOMAIN shipments :
        /\ LastHistory(i) # 0
        /\ history[LastHistory(i)].status = shipments[i].status

\* C28: Delivered is terminal: no step changes the status of a shipment that
\* is Delivered
C28_DeliveredIsTerminal ==
    [][\A i \in DOMAIN shipments :
          shipments[i].status = DELIVERED => shipments'[i].status = DELIVERED]_vars

\* C29: in every state the status of every shipment is one of the
\* ShipmentStatus values
C29_StatusIsKnown ==
    \A i \in DOMAIN shipments : shipments[i].status \in ShipmentStatus

\* C30: a callback of a chat that has no authenticated, unexpired admin
\* session carries out no admin action: whatever its callback data, it
\* leaves every shipment, status history, simulation state and task as it was
C30_CallbacksNeedAdmin ==
    [][\A chat \in Chats, d \in CallbackData, t \in 1..MaxTasks :
          (~IsAdmin(chat) /\ handle_callback_query(t, chat, d)) =>
             /\ shipments' = shipments /\ history' = history
             /\ simstates' = simstates /\ tasks' = tasks]_vars

====
